---- MODULE Spec2Model ----
(***************************************************************************)
(* HealthCost-AI: the supervisor's query pipeline.                         *)
(*                                                                         *)
(* SupervisorAgent.process (src/agents/supervisor.py) strips the query,    *)
(* evaluates three keyword predicates, extracts a disease and a city with  *)
(* MedicalTools (src/tools/medical_tools.py), calls the collaborators      *)
(* whose predicate fired (health, hospital, cost, in that order) and joins *)
(* the rendered sections.                                                  *)
(*                                                                         *)
(* Text.  A Python str that the code searches or compares (the query, the  *)
(* keywords, the disease labels, the city names) is a sequence of          *)
(* one-character strings, so that lower(), strip() and the substring test  *)
(* "k in q" are computed character by character.  A str that the code only *)
(* concatenates (the returned text) is a sequence of chunks, each chunk a  *)
(* literal of the source or a field of a collaborator's result;            *)
(* concatenation is \o.  The pictographs that open the three section       *)
(* headers and the rupee sign of the cost lines are not ASCII and are left *)
(* out of the literals.                                                    *)
(*                                                                         *)
(* Spec is the agent over the collaborators of the repository: the answer  *)
(* of the language model and the hospital dataset are open, the cost       *)
(* arithmetic is computed.  SpecDoubles is the same agent over test        *)
(* doubles of the collaborators, which answer equal arguments equally and  *)
(* may return any status or raise.                                         *)
(***************************************************************************)
EXTENDS Integers, Sequences, FiniteSets, TLC

(* ------------------------------ bounds --------------------------------- *)

\* A generated query is at most MaxWords words of Words joined by one space.
MaxWords == 2

\* Calls of process made on one SupervisorAgent in one behaviour.
MaxRequests == 3

\* Direct calls of the cost estimator: hospital_days in -1..MaxDays,
\* opd_visits_per_year in 0..MaxVisits.
MaxDays == 2

MaxVisits == 2

\* Direct calls of the hospital finder: tables of at most MaxRows rows,
\* top_n in 0..MaxTop.
MaxRows == 2

MaxTop == 2

(* ------------------- vocabularies of the source ------------------------ *)

\* The health keywords without "disease".
HealthKeywordsWithoutDisease ==
    << <<"w","h","a","t"," ","i","s">>,
       <<"s","y","m","p","t","o","m">>,
       <<"s","y","m","p","t","o","m","s">>,
       <<"b","i","m","a","r","i">>,
       <<"h","e","a","l","t","h">>,
       <<"i","n","f","o">> >>

HealthKeywords ==
    << <<"w","h","a","t"," ","i","s">>,
       <<"s","y","m","p","t","o","m">>,
       <<"s","y","m","p","t","o","m","s">>,
       <<"d","i","s","e","a","s","e">>,
       <<"b","i","m","a","r","i">>,
       <<"h","e","a","l","t","h">>,
       <<"i","n","f","o">> >>

HospitalKeywords ==
    << <<"h","o","s","p","i","t","a","l">>,
       <<"d","o","c","t","o","r">>,
       <<"w","h","e","r","e">>,
       <<"b","e","s","t"," ","h","o","s","p","i","t","a","l">>,
       <<"a","d","m","i","t">>,
       <<"t","r","e","a","t","m","e","n","t">> >>

CostKeywords ==
    << <<"c","o","s","t">>,
       <<"p","r","i","c","e">>,
       <<"k","i","t","n","a">>,
       <<"k","h","a","r","c","h","a">>,
       <<"e","x","p","e","n","s","e">>,
       <<"f","e","e","s">>,
       <<"c","h","a","r","g","e","s">> >>

diseases ==
    << <<"d","i","a","b","e","t","e","s">>,
       <<"h","y","p","e","r","t","e","n","s","i","o","n">>,
       <<"a","s","t","h","m","a">>,
       <<"h","e","a","r","t"," ","d","i","s","e","a","s","e">>,
       <<"c","a","n","c","e","r">>,
       <<"k","i","d","n","e","y"," ","d","i","s","e","a","s","e">>,
       <<"l","i","v","e","r"," ","d","i","s","e","a","s","e">>,
       <<"a","r","t","h","r","i","t","i","s">>,
       <<"t","h","y","r","o","i","d">> >>

cities ==
    << [key |-> <<"d","e","l","h","i">>, city |-> <<"D","e","l","h","i">>],
       [key |-> <<"m","u","m","b","a","i">>, city |-> <<"M","u","m","b","a","i">>],
       [key |-> <<"b","o","m","b","a","y">>, city |-> <<"M","u","m","b","a","i">>],
       [key |-> <<"b","a","n","g","a","l","o","r","e">>, city |-> <<"B","a","n","g","a","l","o","r","e">>],
       [key |-> <<"b","e","n","g","a","l","u","r","u">>, city |-> <<"B","a","n","g","a","l","o","r","e">>],
       [key |-> <<"h","y","d","e","r","a","b","a","d">>, city |-> <<"H","y","d","e","r","a","b","a","d">>],
       [key |-> <<"p","u","n","e">>, city |-> <<"P","u","n","e">>],
       [key |-> <<"k","o","l","k","a","t","a">>, city |-> <<"K","o","l","k","a","t","a">>],
       [key |-> <<"c","h","e","n","n","a","i">>, city |-> <<"C","h","e","n","n","a","i">>],
       [key |-> <<"n","c","r">>, city |-> <<"D","e","l","h","i">>] >>

general == <<"g","e","n","e","r","a","l">>

diabetes == <<"d","i","a","b","e","t","e","s">>

Private == <<"P","r","i","v","a","t","e">>

private == <<"p","r","i","v","a","t","e">>

Words ==
    << <<>>,
       <<"\t">>,
       <<"s","y","m","p","t","o","m","s">>,
       <<"h","o","s","p","i","t","a","l">>,
       <<"C","o","s","t">>,
       <<"d","i","a","b","e","t","e","s">>,
       <<"A","s","t","h","m","a">>,
       <<"h","e","a","r","t"," ","d","i","s","e","a","s","e">>,
       <<"b","o","m","b","a","y">>,
       <<"n","c","r">>,
       <<"D","e","l","h","i">>,
       <<"h","e","l","l","o">> >>

Query_HeartDelhi ==
    <<"F","i","n","d"," ","h","o","s","p","i","t","a","l","s"," ","i","n"," ","D","e","l","h","i"," ","f","o","r"," ","h","e","a","r","t"," ","d","i","s","e","a","s","e"," ","t","r","e","a","t","m","e","n","t">>

Query_Symptoms ==
    <<"W","h","a","t"," ","a","r","e"," ","t","h","e"," ","s","y","m","p","t","o","m","s"," ","o","f"," ","d","i","a","b","e","t","e","s","?">>

Query_AllThree ==
    <<"I"," ","h","a","v","e"," ","d","i","a","b","e","t","e","s",","," ","w","h","a","t"," ","a","r","e"," ","t","h","e"," ","s","y","m","p","t","o","m","s"," ","a","n","d"," ","h","o","w"," ","m","u","c","h"," ","w","i","l","l"," ","t","r","e","a","t","m","e","n","t"," ","c","o","s","t","?">>

Query_HeartTreatment ==
    <<"F","i","n","d"," ","h","o","s","p","i","t","a","l","s"," ","i","n"," ","D","e","l","h","i"," ","f","o","r"," ","h","e","a","r","t"," ","t","r","e","a","t","m","e","n","t">>

Query_CostPerYear ==
    <<"H","o","w"," ","m","u","c","h"," ","d","o","e","s"," ","d","i","a","b","e","t","e","s"," ","t","r","e","a","t","m","e","n","t"," ","c","o","s","t"," ","p","e","r"," ","y","e","a","r","?">>

UpperChars == <<"A","B","C","D","E","F","G","H","I","J","K","L","M","N","O","P","Q","R","S","T","U","V","W","X","Y","Z">>

LowerChars == <<"a","b","c","d","e","f","g","h","i","j","k","l","m","n","o","p","q","r","s","t","u","v","w","x","y","z">>

\* Python's None: a value that is no str (every str is a sequence of
\* one-character strings).
None == <<"<None>">>

\* The characters str.strip() removes that occur in the modelled queries.
Whitespace == {" ", "\t", "\n"}

(* --------------------------- str operations ---------------------------- *)

\* str.lower() on one character.
Lower(c) ==
    IF \E i \in 1..Len(UpperChars) : UpperChars[i] = c
    THEN LowerChars[CHOOSE i \in 1..Len(UpperChars) : UpperChars[i] = c]
    ELSE c

\* str.lower()
ToLower(s) == [i \in 1..Len(s) |-> Lower(s[i])]

\* The substring test "k in q".
Contains(q, k) ==
    \E i \in 0..(Len(q) - Len(k)) : \A j \in 1..Len(k) : q[i + j] = k[j]

\* strip(" "): only blanks are removed.
StripBlanksOnly(s) ==
    LET keep == {i \in 1..Len(s) : s[i] # " "}
    IN  IF keep = {} THEN <<>>
        ELSE SubSeq(s, CHOOSE i \in keep : \A j \in keep : i <= j,
                       CHOOSE i \in keep : \A j \in keep : j <= i)

\* str.strip()
Strip(s) ==
    LET keep == {i \in 1..Len(s) : s[i] \notin Whitespace}
    IN  IF keep = {} THEN <<>>
        ELSE SubSeq(s, CHOOSE i \in keep : \A j \in keep : i <= j,
                       CHOOSE i \in keep : \A j \in keep : j <= i)

\* any(k in q for k in keywords), q the lower-cased query
AnyKeyword(query, keywords) ==
    LET q == ToLower(query)
    IN  \E i \in 1..Len(keywords) : Contains(q, keywords[i])

(* ------------------------- intent predicates --------------------------- *)

needs_health_info(query) == AnyKeyword(query, HealthKeywords)

needs_hospital(query) == AnyKeyword(query, HospitalKeywords)

needs_cost(query) == AnyKeyword(query, CostKeywords)

(* -------------------------- entity extraction -------------------------- *)

\* The scan without its early return: the last matching label wins.
RECURSIVE DiseaseScanLast(_, _)
DiseaseScanLast(q, i) ==
    IF i > Len(diseases) THEN general
    ELSE LET later == DiseaseScanLast(q, i + 1)
         IN  IF later # general THEN later
             ELSE IF Contains(q, diseases[i]) THEN diseases[i] ELSE general

\* for d in diseases: if d in q: return d      (from index i on)
RECURSIVE DiseaseScan(_, _)
DiseaseScan(q, i) ==
    IF i > Len(diseases) THEN general
    ELSE IF Contains(q, diseases[i]) THEN diseases[i]
    ELSE DiseaseScan(q, i + 1)

extract_disease_from_query(query) == DiseaseScan(ToLower(query), 1)

\* The scan without its early return: the last matching alias wins.
RECURSIVE CityScanLast(_, _)
CityScanLast(q, i) ==
    IF i > Len(cities) THEN None
    ELSE LET later == CityScanLast(q, i + 1)
         IN  IF later # None THEN later
             ELSE IF Contains(q, cities[i].key) THEN cities[i].city ELSE None

\* for key, city in cities.items(): if key in q: return city   (from index i on)
RECURSIVE CityScan(_, _)
CityScan(q, i) ==
    IF i > Len(cities) THEN None
    ELSE IF Contains(q, cities[i].key) THEN cities[i].city
    ELSE CityScan(q, i + 1)

extract_location_from_query(query) == CityScan(ToLower(query), 1)

(* ------------------------------ queries -------------------------------- *)

\* " ".join(ws)
RECURSIVE JoinWords(_)
JoinWords(ws) ==
    IF Len(ws) = 0 THEN <<>>
    ELSE IF Len(ws) = 1 THEN ws[1]
    ELSE ws[1] \o <<" ">> \o JoinWords(Tail(ws))

WordTuples == UNION {[1..n -> 1..Len(Words)] : n \in 0..MaxWords}

GeneratedQueries == {JoinWords([i \in DOMAIN f |-> Words[f[i]]]) : f \in WordTuples}

\* The example queries of the repository and of its documentation.
ExampleQueries ==
    {Query_HeartDelhi, Query_Symptoms, Query_AllThree,
     Query_HeartTreatment, Query_CostPerYear}

\* "Cost cancer": a cost query for a disease without a medicine table entry
Query_CostCancer == <<"C","o","s","t"," ","c","a","n","c","e","r">>

Queries == GeneratedQueries \cup ExampleQueries \cup {Query_CostCancer}

(* ---------------------------- collaborators ---------------------------- *)

\* A collaborator call that ends by raising instead of returning a dict.
Exception == "<exception>"

\* A key the returned dict does not hold.
Absent == "<absent>"

\* What the language model can answer (response.content).
InfoTexts == {"Diabetes is a chronic condition.", "Please see a doctor."}

\* HealthAdvisorAgent.get_disease_info: the model's answer with status
\* "success", or status "error" with the text of the exception it caught.
get_disease_info(disease_name) ==
    {[status |-> "success", information |-> t, error |-> Absent] : t \in InfoTexts}
    \cup {[status |-> "error", information |-> Absent, error |-> "llm unavailable"]}

\* Rows of HospitalFinderAgent._create_sample_data, as find_hospitals
\* returns them.
Apollo ==
    [name |-> "Apollo Hospitals", city |-> "Delhi", state |-> "Delhi",
     type |-> "Private",
     specialties |-> "Cardiology, Oncology, Neurology, Endocrinology",
     beds |-> 500, contact |-> "+91-11-47444444"]

MaxHealthcare ==
    [name |-> "Max Healthcare", city |-> "Delhi", state |-> "Delhi",
     type |-> "Private",
     specialties |-> "Cardiology, Orthopedics, Pediatrics, General Medicine",
     beds |-> 450, contact |-> "+91-11-45018000"]

HospitalLists == {<<Apollo>>, <<Apollo, MaxHealthcare>>}

\* HospitalFinderAgent.find_hospitals, with the dataset left open: the rows
\* come from a CSV file read at construction, so the call can return
\* "success" with a non-empty list, return "not_found", or raise (a column
\* missing from the file, a bed count that is no number).
find_hospitals(disease, location, hospital_type, top_n) ==
    {[status |-> "success", hospitals |-> hs] : hs \in HospitalLists}
    \cup {[status |-> "not_found", hospitals |-> <<>>],
          [status |-> Exception, hospitals |-> <<>>]}

(* ------------------ HospitalFinderAgent.find_hospitals ------------------ *)

\* Rows of the hospital table: three of the built-in sample, and one a CSV
\* file can hold.  The columns find_hospitals searches are tuples of
\* characters.
Row_Apollo ==
    [Hospital_Name |-> "Apollo Hospitals",
     City |-> <<"D","e","l","h","i">>,
     Hospital_Type |-> <<"P","r","i","v","a","t","e">>,
     Specialties |->
         <<"C","a","r","d","i","o","l","o","g","y",","," ","O","n","c","o","l","o","g","y",","," ","N","e","u","r","o","l","o","g","y",","," ","E","n","d","o","c","r","i","n","o","l","o","g","y">>]

Row_Fortis ==
    [Hospital_Name |-> "Fortis Healthcare",
     City |-> <<"M","u","m","b","a","i">>,
     Hospital_Type |-> <<"P","r","i","v","a","t","e">>,
     Specialties |->
         <<"G","e","n","e","r","a","l",","," ","T","r","a","u","m","a",","," ","S","u","r","g","e","r","y",","," ","O","r","t","h","o","p","e","d","i","c","s">>]

Row_AIIMS ==
    [Hospital_Name |-> "AIIMS Delhi",
     City |-> <<"D","e","l","h","i">>,
     Hospital_Type |-> <<"G","o","v","e","r","n","m","e","n","t">>,
     Specialties |->
         <<"T","e","a","c","h","i","n","g"," ","H","o","s","p","i","t","a","l",","," ","A","l","l"," ","S","p","e","c","i","a","l","t","i","e","s">>]

Row_Clinic ==
    [Hospital_Name |-> "Sugar Clinic",
     City |-> <<"N","e","w"," ","D","e","l","h","i">>,
     Hospital_Type |-> <<"S","e","m","i","-","p","r","i","v","a","t","e">>,
     Specialties |->
         <<"D","i","a","b","e","t","e","s"," ","c","a","r","e">>]

Rows == {Row_Apollo, Row_Fortis, Row_AIIMS, Row_Clinic}

RECURSIVE RowSeqs(_)
RowSeqs(n) ==
    IF n = 0 THEN {<<>>}
    ELSE LET shorter == RowSeqs(n - 1)
         IN  shorter \cup {Append(rs, r) : rs \in {x \in shorter : Len(x) = n - 1}, r \in Rows}

\* self.hospitals_df: the built-in sample or whatever pd.read_csv found in
\* the file, which need not hold a "Specialties" column.
Datasets ==
    {[has_specialties |-> b, rows |-> rs] : b \in BOOLEAN, rs \in RowSeqs(MaxRows)}

\* if x: -- None and "" are false
Truthy(x) == x # None /\ x # <<>>

\* re.compile(pat) fails: an opening parenthesis that is never closed
Unbalanced(pat) ==
    /\ \E i \in 1..Len(pat) : pat[i] = "("
    /\ ~\E i \in 1..Len(pat) : pat[i] = ")"

\* Series.str.contains(pat, case=False, na=False) on one cell, for a pattern
\* of letters, digits and blanks (it then matches as a substring)
StrContains(cell, pat) == Contains(ToLower(cell), ToLower(pat))

\* df.head(n), n >= 0
head(df, n) == SubSeq(df, 1, IF n < Len(df) THEN n ELSE Len(df))

\* One entry of results: row.get(column, "N/A")
ResultEntry(hospitals_df, row) ==
    [name |-> row.Hospital_Name, city |-> row.City, type |-> row.Hospital_Type,
     specialties |-> IF hospitals_df.has_specialties THEN row.Specialties
                     ELSE <<"N","/","A">>]

\* The mask of the disease filter: the specialties name the disease, or the
\* hospital type holds "Private".
KeepForDisease(row, disease) ==
    \/ StrContains(row.Specialties, disease)
    \/ StrContains(row.Hospital_Type, <<"P","r","i","v","a","t","e">>)

\* HospitalFinderAgent.find_hospitals on the table hospitals_df: status and
\* the hospitals (name, city, type and specialties of each).  Indexing a
\* column the table lacks raises KeyError, a disease that is no regular
\* expression raises re.error.
find_hospitals_in(hospitals_df, disease, location, hospital_type, top_n) ==
    LET InCity(row) == StrContains(row.City, location)
        OfType(row) == StrContains(row.Hospital_Type, hospital_type)
        Keep(row) == KeepForDisease(row, disease)
        by_city == IF Truthy(location) THEN SelectSeq(hospitals_df.rows, InCity)
                   ELSE hospitals_df.rows
        by_type == IF Truthy(hospital_type) THEN SelectSeq(by_city, OfType)
                   ELSE by_city
        raises == Truthy(disease)
                  /\ (~hospitals_df.has_specialties \/ Unbalanced(disease))
        df == IF Truthy(disease) /\ ~raises THEN SelectSeq(by_type, Keep) ELSE by_type
        shown == head(df, top_n)
    IN  IF raises THEN [status |-> Exception, hospitals |-> <<>>]
        ELSE IF df = <<>> THEN [status |-> "not_found", hospitals |-> <<>>]
        ELSE [status |-> "success",
              hospitals |-> [i \in 1..Len(shown) |-> ResultEntry(hospitals_df, shown[i])]]

\* self.room_costs
room_costs ==
    << [key |-> <<"d","i","s","t","r","i","c","t">>, per_day |-> 350, opd |-> 94],
       [key |-> <<"t","e","r","t","i","a","r","y">>, per_day |-> 600, opd |-> 304],
       [key |-> <<"p","r","i","v","a","t","e">>, per_day |-> 6000, opd |-> 1251],
       [key |-> <<"m","e","t","r","o","_","p","r","i","v","a","t","e">>,
        per_day |-> 8000, opd |-> 1500] >>

\* self.medicine_costs: the "monthly_total" of each disease
medicine_costs ==
    << [key |-> <<"d","i","a","b","e","t","e","s">>, monthly_total |-> 2500],
       [key |-> <<"h","y","p","e","r","t","e","n","s","i","o","n">>, monthly_total |-> 550],
       [key |-> <<"a","s","t","h","m","a">>, monthly_total |-> 1000],
       [key |-> <<"h","e","a","r","t"," ","d","i","s","e","a","s","e">>,
        monthly_total |-> 850] >>

\* table.get(key): the set of entries under key (empty or one entry)
Lookup(table, key) == {table[i] : i \in {j \in 1..Len(table) : table[j].key = key}}

\* A Python number: an int, or a float held in hundredths (every float the
\* estimator produces is a whole number of hundredths before round(x, 2)).
IntNum(n) == [float |-> FALSE, cents |-> 100 * n]

FloatNum(c) == [float |-> TRUE, cents |-> c]

\* int + float is a float
Plus(a, b) == [float |-> a.float \/ b.float, cents |-> a.cents + b.cents]

\* CostEstimatorAgent.calculate_hospitalization_cost(...)["total_cost"]:
\* the room total plus 24% + 10% + 17% + 39% of it, a float.
calculate_hospitalization_cost(hospital_type, days) ==
    LET e == Lookup(room_costs, hospital_type)
        cost_per_day == IF e = {} THEN 1000 ELSE (CHOOSE x \in e : TRUE).per_day
        room_total == cost_per_day * (IF days > 1 THEN days ELSE 1)
    IN  FloatNum(room_total * 100 + room_total * 24 + room_total * 10
                 + room_total * 17 + room_total * 39)

\* CostEstimatorAgent.calculate_annual_medicine_cost: status and annual_total
calculate_annual_medicine_cost(disease) ==
    LET e == Lookup(medicine_costs, ToLower(disease))
    IN  IF e = {} THEN [status |-> "not_found", annual_total |-> IntNum(0)]
        ELSE [status |-> "success",
              annual_total |-> IntNum((CHOOSE x \in e : TRUE).monthly_total * 12)]

\* The estimator handing on the status of the medicine lookup.
EstimateWithMedicineStatus(disease, hospital_type, hospital_days, opd_visits_per_year) ==
    LET med_result == calculate_annual_medicine_cost(disease)
        e == Lookup(room_costs, hospital_type)
        opd_per_visit == IF e = {} THEN 300 ELSE (CHOOSE x \in e : TRUE).opd
        annual_opd_cost == IntNum(opd_per_visit * opd_visits_per_year)
    IN  [status |-> med_result.status,
         summary |-> [hospitalization |-> IntNum(0),
                      annual_medicines |-> med_result.annual_total,
                      annual_opd_visits |-> annual_opd_cost,
                      estimated_annual_total |->
                          Plus(med_result.annual_total, annual_opd_cost)]]

\* CostEstimatorAgent.estimate_total_healthcare_cost
estimate_total_healthcare_cost(disease, hospital_type, hospital_days, opd_visits_per_year) ==
    LET hosp_cost == IF hospital_days > 0
                     THEN calculate_hospitalization_cost(hospital_type, hospital_days)
                     ELSE IntNum(0)
        med_result == calculate_annual_medicine_cost(disease)
        annual_med_cost == IF med_result.status = "success"
                           THEN med_result.annual_total ELSE IntNum(0)
        e == Lookup(room_costs, hospital_type)
        opd_per_visit == IF e = {} THEN 300 ELSE (CHOOSE x \in e : TRUE).opd
        annual_opd_cost == IntNum(opd_per_visit * opd_visits_per_year)
    IN  [status |-> "success",
         summary |-> [hospitalization |-> hosp_cost,
                      annual_medicines |-> annual_med_cost,
                      annual_opd_visits |-> annual_opd_cost,
                      estimated_annual_total |->
                          Plus(Plus(hosp_cost, annual_med_cost), annual_opd_cost)]]

\* Test doubles of the three collaborators: any result of the interface the
\* supervisor consumes (a dict with a status, and the payload when the status
\* is "success"), or an exception.
NoSummary ==
    [hospitalization |-> IntNum(0), annual_medicines |-> IntNum(0),
     annual_opd_visits |-> IntNum(0), estimated_annual_total |-> IntNum(0)]

HealthDouble ==
    {[status |-> "success", information |-> t, error |-> Absent] : t \in InfoTexts}
    \cup {[status |-> "error", information |-> Absent, error |-> "llm unavailable"],
          [status |-> "not_found", information |-> Absent, error |-> Absent],
          [status |-> Exception, information |-> Absent, error |-> Absent]}

HospitalDouble ==
    {[status |-> "success", hospitals |-> hs] : hs \in HospitalLists}
    \cup {[status |-> s, hospitals |-> <<>>] : s \in {"not_found", "error", Exception}}

CostDouble ==
    {estimate_total_healthcare_cost(diabetes, private, 3, 12)}
    \cup {[status |-> s, summary |-> NoSummary] : s \in {"not_found", "error", Exception}}

(* ------------------------------ rendering ------------------------------ *)

\* f"{x}" of a Python number: an int prints its digits, a float prints at
\* least one decimal.
Fmt(x) ==
    IF ~x.float THEN ToString(x.cents \div 100)
    ELSE ToString(x.cents \div 100) \o "."
         \o (IF x.cents % 10 = 0 THEN ToString((x.cents % 100) \div 10)
             ELSE ToString((x.cents % 100) \div 10) \o ToString(x.cents % 10))

HealthHeader == "HEALTH INFORMATION\n"

HospitalHeader == "HOSPITAL RECOMMENDATIONS\n"

CostHeader == "COST ESTIMATES\n"

HealthFailure == "Sorry, could not fetch disease information."

HospitalFailure == "No hospitals found for given criteria."

CostFailure == "Could not calculate healthcare cost."

\* The health section of process.
HealthSection(info) ==
    IF info.status = "success" THEN <<HealthHeader, info.information>>
    ELSE <<HealthHeader, HealthFailure>>

\* One numbered block of the hospital section.
HospitalBlock(i, hosp) ==
    << "\n", ToString(i), ". ", hosp.name, " (", hosp.city, ", ", hosp.state, ")",
       "\n   Type: ", hosp.type,
       "\n   Specialties: ", hosp.specialties,
       "\n   Beds: ", ToString(hosp.beds),
       "\n   Contact: ", hosp.contact, "\n" >>

\* for i, hosp in enumerate(hospitals, start=1): hospitals_text += block
RECURSIVE HospitalBlocks(_, _)
HospitalBlocks(hospitals, i) ==
    IF i > Len(hospitals) THEN <<>>
    ELSE HospitalBlock(i, hospitals[i]) \o HospitalBlocks(hospitals, i + 1)

\* The hospital section with a branch on "not_found" instead of on success.
HospitalSectionNotFoundOnly(hospital_result) ==
    IF hospital_result.status # "not_found"
    THEN <<HospitalHeader>> \o HospitalBlocks(hospital_result.hospitals, 1)
    ELSE <<HospitalHeader, HospitalFailure>>

\* The hospital section of process.
HospitalSection(hospital_result) ==
    IF hospital_result.status = "success"
    THEN <<HospitalHeader>> \o HospitalBlocks(hospital_result.hospitals, 1)
    ELSE <<HospitalHeader, HospitalFailure>>

\* The cost section of process.
CostSection(cost_result) ==
    IF cost_result.status = "success"
    THEN LET summary == cost_result.summary
         IN  << CostHeader,
                "- Annual Medicines: ", Fmt(summary.annual_medicines), "\n",
                "- Annual OPD Visits: ", Fmt(summary.annual_opd_visits), "\n",
                "- Hospitalization (approx): ", Fmt(summary.hospitalization), "\n",
                "- Estimated Annual Total: ", Fmt(summary.estimated_annual_total), "\n" >>
    ELSE <<CostHeader, CostFailure>>

\* The section process renders from the result of collaborator fn.
SectionOf(fn, r) ==
    CASE fn = "get_disease_info" -> HealthSection(r)
      [] fn = "find_hospitals" -> HospitalSection(r)
      [] fn = "estimate_total_healthcare_cost" -> CostSection(r)

EmptyQueryMessage == <<"Please enter a valid question.">>

HelpMessage ==
    << "I could not understand what you need.\n\n",
       "You can ask things like:\n",
       "- 'What are symptoms of diabetes?'\n",
       "- 'Find hospitals in Delhi for heart treatment'\n",
       "- 'How much does diabetes treatment cost per year?'" >>

\* "\n".join(parts): no blank line between the sections.
RECURSIVE JoinWithNewline(_)
JoinWithNewline(ps) ==
    IF Len(ps) = 0 THEN <<>>
    ELSE IF Len(ps) = 1 THEN ps[1]
    ELSE ps[1] \o <<"\n">> \o JoinWithNewline(Tail(ps))

\* "\n\n".join(parts)
RECURSIVE Join(_)
Join(ps) ==
    IF Len(ps) = 0 THEN <<>>
    ELSE IF Len(ps) = 1 THEN ps[1]
    ELSE ps[1] \o <<"\n\n">> \o Join(Tail(ps))

(* ------------------------- arguments of the calls ---------------------- *)

top_n == 5

hospital_days == 3

opd_visits_per_year == 12

\* disease_for_info = query if disease == "general" else disease
HealthArgs(q, d) == [disease_name |-> IF d = general THEN q ELSE d]

HospitalArgs(d, loc) ==
    [disease |-> IF d = general THEN None ELSE d, location |-> loc,
     hospital_type |-> Private, top_n |-> top_n]

\* The cost call without its default: the sentinel is passed on.
CostArgsWithoutDefault(d) ==
    [disease |-> d, hospital_type |-> private,
     hospital_days |-> hospital_days, opd_visits_per_year |-> opd_visits_per_year]

CostArgs(d) ==
    [disease |-> IF d # general THEN d ELSE diabetes, hospital_type |-> private,
     hospital_days |-> hospital_days, opd_visits_per_year |-> opd_visits_per_year]

(* ------------------------------- state --------------------------------- *)

VARIABLES
    pc,             \* where the current call of process stands
    raw,            \* the argument of the current call
    query,          \* query = query.strip()
    wants_health, wants_hospital, wants_cost,
    disease, location,
    parts,          \* the list of sections
    result,         \* the returned str, None until the call returns
    calls,          \* the collaborator calls of the current call, in order
    trace,          \* the phases the current call has gone through, in order
    doubles,        \* TRUE: the collaborators are deterministic test doubles
    reqs,           \* calls of process finished so far
    first,          \* under doubles: how the first call went
    intervened,     \* under doubles: a later call had another query
    direct          \* a collaborator called on its own, outside process

locals == <<query, wants_health, wants_hospital, wants_cost, disease, location,
            parts, result, calls, trace>>

history == <<doubles, reqs, first, intervened>>

vars == <<pc, raw, locals, history, direct>>

\* The statements of process with the extraction moved before the predicates.
NextPhaseExtractFirst(p) ==
    CASE p = "Validating" -> "Extracting"
      [] p = "Extracting" -> "Classifying"
      [] p = "Classifying" -> "DispatchHealth"
      [] p = "DispatchHealth" -> "DispatchHospital"
      [] p = "DispatchHospital" -> "DispatchCost"
      [] p = "DispatchCost" -> "Composing"
      [] p = "Composing" -> "Done"

\* The order of the statements of process.
NextPhase(p) ==
    CASE p = "Validating" -> "Classifying"
      [] p = "Classifying" -> "Extracting"
      [] p = "Extracting" -> "DispatchHealth"
      [] p = "DispatchHealth" -> "DispatchHospital"
      [] p = "DispatchHospital" -> "DispatchCost"
      [] p = "DispatchCost" -> "Composing"
      [] p = "Composing" -> "Done"

\* parts kept on the agent and never emptied.
StaleParts(earlier) == earlier

\* parts: list[str] = [] -- whatever list an earlier call built
FreshParts(earlier) == <<>>

\* No collaborator has been called on its own.
NoDirect == [fn |-> "<none>", args |-> <<>>, result |-> <<>>]

NoFirst == [query |-> None, pc |-> "Idle", result |-> None, parts |-> <<>>, calls |-> <<>>]

\* The results a collaborator call can end with.  A double answers equal
\* arguments equally: it is held to that for the arguments of the agent's
\* first call, the call later ones are compared with.
Outcomes(fn, args, real, double) ==
    IF ~doubles THEN real
    ELSE IF \E i \in 1..Len(first.calls) :
                first.calls[i].fn = fn /\ first.calls[i].args = args
    THEN {first.calls[i].result :
             i \in {j \in 1..Len(first.calls) :
                       first.calls[j].fn = fn /\ first.calls[j].args = args}}
    ELSE double

(* ------------------------------- actions ------------------------------- *)

Init ==
    /\ pc = "Idle"
    /\ raw = None
    /\ query = None
    /\ wants_health = FALSE
    /\ wants_hospital = FALSE
    /\ wants_cost = FALSE
    /\ disease = None
    /\ location = None
    /\ parts = <<>>
    /\ result = None
    /\ calls = <<>>
    /\ trace = <<>>
    /\ doubles = FALSE
    /\ reqs = 0
    /\ first = NoFirst
    /\ intervened = FALSE
    /\ direct = NoDirect

\* The same agent, built over test doubles of the three collaborators.
InitDoubles ==
    /\ pc = "Idle"
    /\ raw = None
    /\ query = None
    /\ wants_health = FALSE
    /\ wants_hospital = FALSE
    /\ wants_cost = FALSE
    /\ disease = None
    /\ location = None
    /\ parts = <<>>
    /\ result = None
    /\ calls = <<>>
    /\ trace = <<>>
    /\ doubles = TRUE
    /\ reqs = 0
    /\ first = NoFirst
    /\ intervened = FALSE
    /\ direct = NoDirect

\* A caller calls process(q).
Receive ==
    /\ pc = "Idle"
    /\ reqs < MaxRequests
    /\ \E q \in (IF doubles THEN ExampleQueries ELSE Queries) : raw' = q
    /\ pc' = "Validating"
    /\ direct = NoDirect
    /\ UNCHANGED <<locals, history, direct>>

\* query = query.strip(); if not query: return "Please enter a valid question."
Validate ==
    /\ pc = "Validating"
    /\ query' = Strip(raw)
    /\ trace' = Append(trace, "Validating")
    /\ IF query' = <<>>
       THEN pc' = "Done" /\ result' = EmptyQueryMessage
       ELSE pc' = NextPhase("Validating") /\ result' = result
    /\ UNCHANGED <<raw, wants_health, wants_hospital, wants_cost, disease, location,
                   parts, calls, history, direct>>

\* wants_health, wants_hospital, wants_cost = the three predicates of query
Classify ==
    /\ pc = "Classifying"
    /\ wants_health' = needs_health_info(query)
    /\ wants_hospital' = needs_hospital(query)
    /\ wants_cost' = needs_cost(query)
    /\ trace' = Append(trace, "Classifying")
    /\ pc' = NextPhase("Classifying")
    /\ UNCHANGED <<raw, query, disease, location, parts, result, calls, history, direct>>

\* disease, location = the two extractions of query; parts = []
Extract ==
    /\ pc = "Extracting"
    /\ disease' = extract_disease_from_query(query)
    /\ location' = extract_location_from_query(query)
    /\ parts' = FreshParts(first.parts)
    /\ trace' = Append(trace, "Extracting")
    /\ pc' = NextPhase("Extracting")
    /\ UNCHANGED <<raw, query, wants_health, wants_hospital, wants_cost, result,
                   calls, history, direct>>

\* One adapter: when its flag is set, call the collaborator and append the
\* section; an exception of the collaborator leaves process at once.
Adapter(phase, wants, fn, args, real, double) ==
    /\ pc = phase
    /\ trace' = IF phase = "DispatchHealth" THEN Append(trace, "Dispatching") ELSE trace
    /\ IF wants
       THEN \E r \in Outcomes(fn, args, real, double) :
               /\ calls' = Append(calls, [fn |-> fn, args |-> args, result |-> r])
               /\ IF r.status = Exception
                  THEN pc' = "Raised" /\ parts' = parts
                  ELSE pc' = NextPhase(phase) /\ parts' = Append(parts, SectionOf(fn, r))
       ELSE /\ pc' = NextPhase(phase)
            /\ UNCHANGED <<calls, parts>>
    /\ UNCHANGED <<raw, query, wants_health, wants_hospital, wants_cost, disease,
                   location, result, history, direct>>

\* 1) Health information
DispatchHealth ==
    LET a == HealthArgs(query, disease)
    IN  Adapter("DispatchHealth", wants_health, "get_disease_info", a,
                get_disease_info(a.disease_name), HealthDouble)

\* 2) Hospital recommendations
DispatchHospital ==
    LET a == HospitalArgs(disease, location)
    IN  Adapter("DispatchHospital", wants_hospital, "find_hospitals", a,
                find_hospitals(a.disease, a.location, a.hospital_type, a.top_n),
                HospitalDouble)

\* 3) Cost estimation
DispatchCost ==
    LET a == CostArgs(disease)
    IN  Adapter("DispatchCost", wants_cost, "estimate_total_healthcare_cost", a,
                {estimate_total_healthcare_cost(a.disease, a.hospital_type,
                                                a.hospital_days, a.opd_visits_per_year)},
                CostDouble)

\* process without its fallback: the joined parts, whatever was detected.
ComposeWithoutFallback(h, ho, c, ps) == Join(ps)

\* if not (wants_health or wants_hospital or wants_cost): return the help
\* message; return "\n\n".join(parts)
ComposeResult(h, ho, c, ps) == IF ~(h \/ ho \/ c) THEN HelpMessage ELSE Join(ps)

\* The end of process.
Compose ==
    /\ pc = "Composing"
    /\ result' = ComposeResult(wants_health, wants_hospital, wants_cost, parts)
    /\ trace' = Append(trace, "Composing")
    /\ pc' = NextPhase("Composing")
    /\ UNCHANGED <<raw, query, wants_health, wants_hospital, wants_cost, disease,
                   location, parts, calls, history, direct>>

\* The call is over (returned or raised): its locals are gone.
Return ==
    /\ pc \in {"Done", "Raised"}
    /\ pc' = "Idle"
    /\ reqs' = reqs + 1
    /\ first' = IF doubles /\ reqs = 0
                THEN [query |-> raw, pc |-> pc, result |-> result, parts |-> parts,
                      calls |-> calls]
                ELSE first
    /\ intervened' = (intervened \/ (doubles /\ reqs > 0 /\ raw # first.query))
    /\ raw' = None
    /\ query' = None
    /\ wants_health' = FALSE
    /\ wants_hospital' = FALSE
    /\ wants_cost' = FALSE
    /\ disease' = None
    /\ location' = None
    /\ parts' = <<>>
    /\ result' = None
    /\ calls' = <<>>
    /\ trace' = <<>>
    /\ UNCHANGED <<doubles, direct>>

Next ==
    \/ Receive
    \/ Validate
    \/ Classify
    \/ Extract
    \/ DispatchHealth
    \/ DispatchHospital
    \/ DispatchCost
    \/ Compose
    \/ Return

Spec == Init /\ [][Next]_vars

(* ----------------- the collaborators called on their own ---------------- *)

cancer == <<"c","a","n","c","e","r">>

\* disease arguments: labels with and without a medicine table entry, in
\* either case of letters, the sentinel, and text that is no label
DirectDiseases ==
    {diabetes, <<"A","s","t","h","m","a">>, cancer, general, <<"f","l","u">>, <<>>}

\* hospital_type arguments: keys of room_costs, and values that are no key
DirectHospitalTypes ==
    {private, <<"d","i","s","t","r","i","c","t">>, Private, <<"c","l","i","n","i","c">>}

\* CostEstimatorAgent().estimate_total_healthcare_cost(d, t, days, visits)
EstimateDirect ==
    /\ pc = "Idle"
    /\ reqs = 0
    /\ direct = NoDirect
    /\ \E d \in DirectDiseases, t \in DirectHospitalTypes,
          days \in -1..MaxDays, visits \in 0..MaxVisits :
          direct' = [fn |-> "estimate_total_healthcare_cost",
                     args |-> [disease |-> d, hospital_type |-> t,
                               hospital_days |-> days, opd_visits_per_year |-> visits],
                     result |-> estimate_total_healthcare_cost(d, t, days, visits)]
    /\ UNCHANGED <<pc, raw, locals, history>>

\* disease arguments: none, a label, a word of a specialty, and text that is
\* no regular expression
FinderDiseases ==
    {None, <<>>, diabetes, <<"c","a","r","d","i","o","l","o","g","y">>, <<"(">>}

FinderLocations == {None, <<"d","e","l","h","i">>, <<"M","u","m","b","a","i">>}

FinderHospitalTypes == {None, Private, <<"g","o","v","e","r","n","m","e","n","t">>}

\* HospitalFinderAgent(csv).find_hospitals(d, loc, t, n)
FindDirect ==
    /\ pc = "Idle"
    /\ reqs = 0
    /\ direct = NoDirect
    /\ \E df \in Datasets, d \in FinderDiseases, loc \in FinderLocations,
          t \in FinderHospitalTypes, n \in 0..MaxTop :
          direct' = [fn |-> "find_hospitals",
                     args |-> [hospitals_df |-> df, disease |-> d, location |-> loc,
                               hospital_type |-> t, top_n |-> n],
                     result |-> find_hospitals_in(df, d, loc, t, n)]
    /\ UNCHANGED <<pc, raw, locals, history>>

\* The caller of the collaborator is done with the result.
DropDirect ==
    /\ direct # NoDirect
    /\ direct' = NoDirect
    /\ UNCHANGED <<pc, raw, locals, history>>

NextDirect ==
    \/ Next
    \/ EstimateDirect
    \/ FindDirect
    \/ DropDirect

\* The agent, and its collaborators called on their own.  They keep nothing
\* between calls, so a direct call is the same before or after any request:
\* it is taken before the first one.
SpecDirect == Init /\ [][NextDirect]_vars

SpecDoubles == InitDoubles /\ [][Next]_vars

(* ------------------------ properties of process ------------------------ *)

\* The call of process is over: it returned (Done) or raised (Raised).
Finished == pc \in {"Done", "Raised"}

\* chunk occurs in text
Has(text, chunk) == \E i \in 1..Len(text) : text[i] = chunk

\* fn was called during the current call of process
Called(fn) == \E i \in 1..Len(calls) : calls[i].fn = fn

\* what the call of fn ended with
ResultOf(fn) == calls[CHOOSE i \in 1..Len(calls) : calls[i].fn = fn].result

\* no keyword of the three sets occurs in the lower-cased query
NoKeyword(q) ==
    LET lq == ToLower(q)
    IN  \A kws \in {HealthKeywords, HospitalKeywords, CostKeywords} :
            \A i \in 1..Len(kws) : ~Contains(lq, kws[i])

\* every character of s is whitespace (s is empty after stripping)
Blank(s) == \A i \in 1..Len(s) : s[i] \in Whitespace

\* C1: when all three intents fire and the Hospital-Lookup collaborator
\* raises, process still returns a string holding a health section, a cost
\* section and the fixed hospital-failure text: no exception escapes process.
C1_AdapterIsolation ==
    (/\ Finished
     /\ wants_health /\ wants_hospital /\ wants_cost
     /\ Called("find_hospitals")
     /\ ResultOf("find_hospitals").status = Exception)
    => (/\ pc = "Done"
        /\ Has(result, HealthHeader)
        /\ Has(result, CostHeader)
        /\ Has(result, HospitalFailure))

\* C2 as stated: for "Find hospitals in Delhi for heart disease treatment"
\* wants_hospital is true and wants_health is false, disease is "heart
\* disease", location is "Delhi", and the response is the hospital section
\* only.
C2_HospitalSectionOnly ==
    (raw = Query_HeartDelhi /\ pc = "Done")
    => (/\ wants_hospital /\ ~wants_health
        /\ disease = diseases[4]
        /\ location = cities[1].city
        /\ result = HospitalSection(ResultOf("find_hospitals")))

\* C2 amended: for that query wants_hospital and wants_health are both true
\* (the label "heart disease" holds the health keyword "disease") and
\* wants_cost is false, disease is "heart disease", location is "Delhi", and
\* the response is the health section, a blank line, the hospital section.
C2_HealthAndHospitalSections ==
    (raw = Query_HeartDelhi /\ pc = "Done")
    => (/\ wants_hospital /\ wants_health /\ ~wants_cost
        /\ disease = <<"h","e","a","r","t"," ","d","i","s","e","a","s","e">>
        /\ location = <<"D","e","l","h","i">>
        /\ Len(calls) = 2
        /\ result = HealthSection(ResultOf("get_disease_info")) \o <<"\n\n">>
                    \o HospitalSection(ResultOf("find_hospitals")))

C2_Witness ==
    /\ raw = Query_HeartDelhi
    /\ pc = "Done"
    /\ Called("find_hospitals")
    /\ ResultOf("find_hospitals").status = "success"

\* The sections of the fired intents, rendered from what each collaborator
\* returned, in the order health, hospital, cost.
ExpectedSections ==
    (IF wants_health THEN <<HealthSection(ResultOf("get_disease_info"))>> ELSE <<>>)
    \o (IF wants_hospital THEN <<HospitalSection(ResultOf("find_hospitals"))>> ELSE <<>>)
    \o (IF wants_cost
        THEN <<CostSection(ResultOf("estimate_total_healthcare_cost"))>> ELSE <<>>)

\* the position of the one occurrence of chunk in text
PositionOf(text, chunk) == CHOOSE i \in 1..Len(text) : text[i] = chunk

\* C3: when process returns for a query that fired at least one intent, the
\* returned string is the sections of the fired intents, one per fired intent,
\* in the order health, hospital, cost, with "\n\n" between neighbours; with
\* all three fired the health header comes before the hospital header, which
\* comes before the cost header.
C3_SectionsJoinedInOrder ==
    (pc = "Done" /\ (wants_health \/ wants_hospital \/ wants_cost))
    => (/\ Len(parts) = Cardinality({f \in {1, 2, 3} :
                             <<wants_health, wants_hospital, wants_cost>>[f]})
        /\ parts = ExpectedSections
        /\ result = parts[1]
                    \o (IF Len(parts) > 1 THEN <<"\n\n">> \o parts[2] ELSE <<>>)
                    \o (IF Len(parts) > 2 THEN <<"\n\n">> \o parts[3] ELSE <<>>)
        /\ (wants_health /\ wants_hospital /\ wants_cost)
           => (/\ PositionOf(result, HealthHeader) < PositionOf(result, HospitalHeader)
               /\ PositionOf(result, HospitalHeader) < PositionOf(result, CostHeader)))

C3_Witness ==
    /\ pc = "Done"
    /\ wants_health /\ wants_hospital /\ wants_cost
    /\ Len(parts) = 3

\* C4: a query that is not blank and holds no keyword of the three sets gets
\* exactly the help message, and no collaborator is called for it.
C4_HelpMessageWithoutCalls ==
    (pc \in {"DispatchHealth", "DispatchHospital", "DispatchCost", "Composing",
             "Done", "Raised"} /\ ~Blank(raw) /\ NoKeyword(raw))
    => (/\ calls = <<>>
        /\ pc # "Raised"
        /\ pc = "Done"
           => result = << "I could not understand what you need.\n\n",
                          "You can ask things like:\n",
                          "- 'What are symptoms of diabetes?'\n",
                          "- 'Find hospitals in Delhi for heart treatment'\n",
                          "- 'How much does diabetes treatment cost per year?'" >>)

C4_Witness ==
    /\ pc = "Done"
    /\ ~Blank(raw)
    /\ NoKeyword(raw)
    /\ disease # general
    /\ location # None

\* C5: a query that is blank (empty, or whitespace only) gets exactly "Please
\* enter a valid question." straight after validation: nothing is classified,
\* nothing is extracted and no collaborator is called.
C5_BlankQueryRejected ==
    (pc \notin {"Idle", "Validating"} /\ Blank(raw))
    => (/\ pc = "Done"
        /\ result = <<"Please enter a valid question.">>
        /\ trace = <<"Validating">>
        /\ calls = <<>>
        /\ disease = None /\ location = None
        /\ ~wants_health /\ ~wants_hospital /\ ~wants_cost)

C5_Witness ==
    /\ pc = "Done"
    /\ Len(raw) > 1
    /\ Blank(raw)
    /\ result = <<"Please enter a valid question.">>

\* the indices of the disease labels that occur in the lower-cased q
DiseaseHits(q) ==
    LET lq == ToLower(q) IN {i \in 1..Len(diseases) : Contains(lq, diseases[i])}

\* the indices of the city aliases that occur in the lower-cased q
AliasHits(q) ==
    LET lq == ToLower(q) IN {i \in 1..Len(cities) : Contains(lq, cities[i].key)}

\* the least index of a non-empty set of indices
Least(S) == CHOOSE i \in S : \A j \in S : i <= j

\* the extraction of the current call has just run
Extracted == Len(trace) > 0 /\ trace[Len(trace)] = "Extracting"

\* C6: the extracted disease is "general" or one of the nine labels; it is
\* "general" exactly when no label is a substring of the lower-cased query, and
\* otherwise it is the matching label that comes first in the list.
C6_DiseaseIsFirstListedLabel ==
    Extracted
    => LET hits == DiseaseHits(query)
       IN  /\ disease \in {general} \cup {diseases[i] : i \in 1..Len(diseases)}
           /\ Len(diseases) = 9
           /\ (disease = general) <=> (hits = {})
           /\ hits # {} => disease = diseases[Least(hits)]

\* "Asthma diabetes": asthma comes first in the text, diabetes in the list.
C6_Witness ==
    /\ Extracted
    /\ query = <<"A","s","t","h","m","a"," ","d","i","a","b","e","t","e","s">>
    /\ disease = <<"d","i","a","b","e","t","e","s">>

\* C7: the extracted location is the city of the first alias, in table order,
\* that is a substring of the lower-cased query, wherever the aliases stand in
\* the text, and None when no alias matches; "bombay ncr" and "ncr bombay"
\* both give the city of "bombay", the earlier alias.
C7_LocationIsFirstListedAlias ==
    Extracted
    => LET hits == AliasHits(query)
       IN  /\ (location = None) <=> (hits = {})
           /\ hits # {} => location = cities[Least(hits)].city
           /\ query \in {<<"b","o","m","b","a","y"," ","n","c","r">>,
                         <<"n","c","r"," ","b","o","m","b","a","y">>}
              => location = <<"M","u","m","b","a","i">>

C7_Witness ==
    /\ Extracted
    /\ query = <<"n","c","r"," ","b","o","m","b","a","y">>
    /\ location = <<"M","u","m","b","a","i">>

\* C8: with collaborators that answer equal arguments equally, a later call
\* of process with the query of the first call ends as the first call did (the
\* same returned string, or the same exception), whatever queries were
\* processed in between.
C8_SameQuerySameResult ==
    (doubles /\ Finished /\ reqs >= 1 /\ raw = first.query)
    => (pc = first.pc /\ result = first.result)

C8_Witness ==
    /\ doubles
    /\ pc = "Done"
    /\ reqs >= 2
    /\ intervened
    /\ raw = first.query
    /\ Len(calls) >= 2

\* t is an initial part of u
IsPrefix(t, u) == Len(t) <= Len(u) /\ SubSeq(u, 1, Len(t)) = t

\* how often phase occurs in trace
Times(phase) == Cardinality({i \in 1..Len(trace) : trace[i] = phase})

RECURSIVE FnsOf(_)
FnsOf(cs) == IF cs = <<>> THEN <<>> ELSE <<Head(cs).fn>> \o FnsOf(Tail(cs))

\* the collaborators of the fired intents, in the order health, hospital, cost
FiredFns ==
    (IF wants_health THEN <<"get_disease_info">> ELSE <<>>)
    \o (IF wants_hospital THEN <<"find_hospitals">> ELSE <<>>)
    \o (IF wants_cost THEN <<"estimate_total_healthcare_cost">> ELSE <<>>)

\* C10: by the end of a call of process on a non-blank query, each
\* collaborator has been called exactly when its own flag is set, at most
\* once, in the order health, hospital, cost.
C10_CalledIffFired ==
    (Finished /\ ~Blank(raw)) => FnsOf(calls) = FiredFns

\* What holds of the calls that return: there the collaborators called are
\* those of the fired intents, each once, in order.
CalledIffFiredWhenReturned ==
    (pc = "Done" /\ ~Blank(raw)) => FnsOf(calls) = FiredFns

\* the arguments of the call of fn
ArgsOf(fn) == calls[CHOOSE i \in 1..Len(calls) : calls[i].fn = fn].args

\* What C11 says of the hospital call and of the cost call: the sentinel is
\* replaced by None and by "diabetes", a label is passed on, and the other
\* arguments are fixed.
HospitalAndCostCallsAsStated ==
    /\ Called("find_hospitals")
       => ArgsOf("find_hospitals")
          = [disease |-> IF disease = <<"g","e","n","e","r","a","l">>
                         THEN None ELSE disease,
             location |-> location,
             hospital_type |-> <<"P","r","i","v","a","t","e">>,
             top_n |-> 5]
    /\ Called("estimate_total_healthcare_cost")
       => ArgsOf("estimate_total_healthcare_cost")
          = [disease |-> IF disease = <<"g","e","n","e","r","a","l">>
                         THEN <<"d","i","a","b","e","t","e","s">> ELSE disease,
             hospital_type |-> <<"p","r","i","v","a","t","e">>,
             hospital_days |-> 3,
             opd_visits_per_year |-> 12]
    /\ \A i \in 1..Len(calls) :
          /\ disease \in {<<"g","e","n","e","r","a","l">>}
                         \cup {diseases[j] : j \in 1..Len(diseases)}
          /\ calls[i].fn = "get_disease_info"
             => calls[i].args.disease_name # <<"g","e","n","e","r","a","l">>
          /\ calls[i].fn # "get_disease_info"
             => calls[i].args.disease # <<"g","e","n","e","r","a","l">>

\* C11 as stated: "general" is never passed to a collaborator; when the
\* extracted disease is "general" the health collaborator receives the entire
\* raw query text (the argument of process), the hospital collaborator None,
\* the cost collaborator "diabetes"; otherwise all three receive the label; the
\* other arguments of the hospital and cost calls are fixed.
C11_HealthGetsRawQuery ==
    /\ HospitalAndCostCallsAsStated
    /\ Called("get_disease_info")
       => ArgsOf("get_disease_info")
          = [disease_name |-> IF disease = <<"g","e","n","e","r","a","l">>
                              THEN raw ELSE disease]

\* C11 amended: the same, except that with "general" the health collaborator
\* receives the query text after whitespace stripping (query.strip()), not the
\* argument of process as it came.
C11_HealthGetsStrippedQuery ==
    /\ HospitalAndCostCallsAsStated
    /\ Called("get_disease_info")
       => ArgsOf("get_disease_info")
          = [disease_name |-> IF disease = <<"g","e","n","e","r","a","l">>
                              THEN Strip(raw) ELSE disease]

\* "symptoms Cost": no label, the health and the cost collaborator are called.
C11_Witness ==
    /\ pc = "Done"
    /\ disease = <<"g","e","n","e","r","a","l">>
    /\ Called("get_disease_info")
    /\ Called("estimate_total_healthcare_cost")
    /\ ArgsOf("estimate_total_healthcare_cost").disease = <<"d","i","a","b","e","t","e","s">>

\* The fixed header and the fixed failure text of the section of fn.
HeaderOf(fn) ==
    CASE fn = "get_disease_info" -> "HEALTH INFORMATION\n"
      [] fn = "find_hospitals" -> "HOSPITAL RECOMMENDATIONS\n"
      [] fn = "estimate_total_healthcare_cost" -> "COST ESTIMATES\n"

FailureOf(fn) ==
    CASE fn = "get_disease_info" -> "Sorry, could not fetch disease information."
      [] fn = "find_hospitals" -> "No hospitals found for given criteria."
      [] fn = "estimate_total_healthcare_cost" -> "Could not calculate healthcare cost."

\* The payload of a successful result r of fn is in section part.
CarriesPayload(fn, r, part) ==
    CASE fn = "get_disease_info" -> part = <<HeaderOf(fn), r.information>>
      [] fn = "find_hospitals" ->
            /\ \A i \in 1..Len(r.hospitals) :
                  Has(part, r.hospitals[i].name) /\ Has(part, r.hospitals[i].contact)
            /\ (r.hospitals = <<>>) = (Len(part) = 1)
      [] fn = "estimate_total_healthcare_cost" ->
            /\ Has(part, Fmt(r.summary.annual_medicines))
            /\ Has(part, Fmt(r.summary.estimated_annual_total))

\* C12: (the k-th section is rendered from the k-th collaborator call; a call
\* that raises is the last one and renders nothing) each section starts with its adapter's fixed header; it is the success
\* rendering (header, then the payload) exactly when the status of its
\* collaborator's result is "success", and header plus the adapter's fixed
\* failure text for every other status; the error detail is nowhere in the
\* returned string; and a section is the same as the section an earlier call
\* of process rendered from an equal result, whatever the statuses of the
\* sections around them.
C12_SectionBranchesOnStatusOnly ==
    /\ Len(parts) <= Len(calls)
    /\ \A k \in 1..Len(parts) :
          LET fn == calls[k].fn
              r == calls[k].result
          IN  /\ parts[k][1] = HeaderOf(fn)
              /\ (r.status = "success") = (parts[k] # <<HeaderOf(fn), FailureOf(fn)>>)
              /\ r.status = "success" => CarriesPayload(fn, r, parts[k])
              /\ \A j \in 1..Len(first.parts) :
                    (first.calls[j].fn = fn /\ first.calls[j].result = r)
                    => parts[k] = first.parts[j]
    /\ pc = "Done"
       => \A k \in 1..Len(calls) :
             calls[k].fn = "get_disease_info" /\ calls[k].result.error # Absent
             => ~Has(result, calls[k].result.error)

\* A returned response with a failed section ("error") beside a successful
\* one and a "not_found" one, whose successful section an earlier call with
\* another query rendered beside sections of other statuses.
C12_Witness ==
    /\ pc = "Done"
    /\ Len(parts) = 3
    /\ \E k \in 1..3 : calls[k].result.status = "error"
    /\ \E k \in 1..3 : calls[k].result.status = "not_found"
    /\ \E k \in 1..3 : \E j \in 1..Len(first.parts) :
          /\ calls[k].result.status = "success"
          /\ first.calls[j] # calls[k]
          /\ first.calls[j].fn = calls[k].fn
          /\ first.calls[j].result = calls[k].result
          /\ \E i \in 1..Len(first.parts) :
                first.calls[i].result.status \notin {"success", calls[i].result.status}

\* The keys of the medicine table.
MedicineKeys ==
    { <<"d","i","a","b","e","t","e","s">>,
      <<"h","y","p","e","r","t","e","n","s","i","o","n">>,
      <<"a","s","t","h","m","a">>,
      <<"h","e","a","r","t"," ","d","i","s","e","a","s","e">> }

\* chunk b follows chunk a at once somewhere in text
HasPair(text, a, b) == \E i \in 1..(Len(text) - 1) : text[i] = a /\ text[i + 1] = b

\* C13: estimate_total_healthcare_cost returns status "success" for every
\* disease, hospital type, day count and visit count; for a disease without an
\* entry in the medicine table annual_medicines is 0 (an int); through process
\* the text 'Could not calculate healthcare cost.' is never produced, and a
\* cost query whose extracted disease has no entry reports medicines of 0.
C13_EstimateAlwaysSucceeds ==
    /\ direct.fn = "estimate_total_healthcare_cost"
       => /\ direct.result.status = "success"
          /\ (ToLower(direct.args.disease) \notin MedicineKeys)
             = (direct.result.summary.annual_medicines = [float |-> FALSE, cents |-> 0])
    /\ \A k \in 1..Len(parts) :
          ~Has(parts[k], "Could not calculate healthcare cost.")
    /\ pc = "Done" => ~Has(result, "Could not calculate healthcare cost.")
    /\ \A k \in 1..Len(calls) :
          calls[k].fn = "estimate_total_healthcare_cost"
          => /\ calls[k].result.status = "success"
             /\ (pc = "Done" /\ calls[k].args.disease \notin MedicineKeys)
                => HasPair(result, "- Annual Medicines: ", "0")

\* "Cost cancer" has been answered: the estimator was called with "cancer",
\* which has no medicine entry.
C13_Witness ==
    /\ pc = "Done"
    /\ disease = <<"c","a","n","c","e","r">>
    /\ Called("estimate_total_healthcare_cost")
    /\ ArgsOf("estimate_total_healthcare_cost").disease = <<"c","a","n","c","e","r">>
    /\ HasPair(result, "- Annual Medicines: ", "0")

\* The estimator has been called on its own with a disease that has no entry.
EstimatedWithoutEntry ==
    /\ direct.fn = "estimate_total_healthcare_cost"
    /\ direct.args.disease = <<"c","a","n","c","e","r">>
    /\ direct.args.hospital_days > 0
    /\ direct.result.summary.annual_medicines.cents = 0

\* The places in the table of the rows that survive the location filter and
\* the type filter.
Survivors(hospitals_df, loc, type) ==
    {i \in 1..Len(hospitals_df.rows) :
        /\ (loc \in {None, <<>>}
            \/ Contains(ToLower(hospitals_df.rows[i].City), ToLower(loc)))
        /\ (type \in {None, <<>>}
            \/ Contains(ToLower(hospitals_df.rows[i].Hospital_Type), ToLower(type)))}

\* The k-th smallest element of the set S of numbers.
Kth(S, k) == CHOOSE i \in S : Cardinality({j \in S : j < i}) = k - 1

\* The result the claim describes: the first at most n survivors in table
\* order, "not_found" exactly when there is none.
FirstSurvivors(hospitals_df, loc, type, n, r) ==
    LET S == Survivors(hospitals_df, loc, type)
    IN  /\ (r.status = "not_found") = (S = {})
        /\ r.status \in {"not_found", "success"}
        /\ Len(r.hospitals) = (IF n < Cardinality(S) THEN n ELSE Cardinality(S))
        /\ \A k \in 1..Len(r.hospitals) :
              /\ r.hospitals[k].name = hospitals_df.rows[Kth(S, k)].Hospital_Name
              /\ r.hospitals[k].city = hospitals_df.rows[Kth(S, k)].City
              /\ r.hospitals[k].type = hospitals_df.rows[Kth(S, k)].Hospital_Type

\* C14: with hospital_type "Private" the disease filter removes no row: for
\* every table, location and disease the result of find_hospitals (status and
\* ordered hospital list) is the result for disease = None, namely the first
\* at most top_n rows that survive the location and type filters, in table
\* order, with status "not_found" exactly when no row survives.
C14_DiseaseNeverInfluencesResult ==
    (direct.fn = "find_hospitals"
     /\ direct.args.hospital_type = <<"P","r","i","v","a","t","e">>)
    => LET a == direct.args
       IN  /\ direct.result
              = find_hospitals_in(a.hospitals_df, None, a.location, a.hospital_type, a.top_n)
           /\ FirstSurvivors(a.hospitals_df, a.location, a.hospital_type, a.top_n,
                             direct.result)

\* What holds of the calls with "Private" that return: the result is that for
\* disease = None, the first survivors of the two other filters.
DiseaseFilterRemovesNoRowWhenReturned ==
    (direct.fn = "find_hospitals"
     /\ direct.args.hospital_type = <<"P","r","i","v","a","t","e">>
     /\ direct.result.status # Exception)
    => LET a == direct.args
       IN  /\ direct.result
              = find_hospitals_in(a.hospitals_df, None, a.location, a.hospital_type, a.top_n)
           /\ FirstSurvivors(a.hospitals_df, a.location, a.hospital_type, a.top_n,
                             direct.result)

\* A call with "Private" and a disease that returned fewer hospitals than
\* rows survive, from a table with a row whose specialties do not name the
\* disease.
PrivateCallWithDiseaseCapped ==
    /\ direct.fn = "find_hospitals"
    /\ direct.args.hospital_type = <<"P","r","i","v","a","t","e">>
    /\ direct.args.disease = <<"d","i","a","b","e","t","e","s">>
    /\ direct.result.status = "success"
    /\ Len(direct.result.hospitals) = 1
    /\ Cardinality(Survivors(direct.args.hospitals_df, direct.args.location,
                             direct.args.hospital_type)) = 2
    /\ direct.result.hospitals[1].type = <<"S","e","m","i","-","p","r","i","v","a","t","e">>

\* With another hospital type the disease does change the result.
DiseaseFilterBitesOtherwise ==
    /\ direct.fn = "find_hospitals"
    /\ direct.result.status = "not_found"
    /\ find_hospitals_in(direct.args.hospitals_df, None, direct.args.location,
                         direct.args.hospital_type, direct.args.top_n).status = "success"

\* A label process passes makes the call raise where the call without a
\* disease returns hospitals: the table holds no "Specialties" column.
LabelRaisesWhereNoneReturns ==
    /\ direct.fn = "find_hospitals"
    /\ direct.args.hospital_type = <<"P","r","i","v","a","t","e">>
    /\ direct.args.disease = <<"d","i","a","b","e","t","e","s">>
    /\ direct.result.status = Exception
    /\ find_hospitals_in(direct.args.hospitals_df, None, direct.args.location,
                         direct.args.hospital_type, direct.args.top_n).status = "success"

====
